---- MODULE Spec2Model ----
(***************************************************************************)
(* State-machine model of src/src/useMergeSort.ts: the merge sort that is  *)
(* driven by user decisions (useMergeSort, useMergeSortPass,               *)
(* useConsideredLists, useMerger) and its undoable wrapper                 *)
(* (useUndoableMergeSort).                                                 *)
(*                                                                         *)
(* A MergeSortState object is a function from its keys to values, so that  *)
(* a key that is absent (an initialState written without `result`) differs *)
(* from a key that holds undefined.  An optional value is a sequence of    *)
(* length 0 (undefined) or 1 (the value).  One step of the model is one    *)
(* render: every effect runs against the rendered state, the partial       *)
(* states they dispatch are queued, and the reducer folds the queue into   *)
(* the next state.                                                         *)
(*                                                                         *)
(* Every effect is evaluated on every render.  React runs an effect only   *)
(* when one of its dependencies changed, but each effect's condition reads *)
(* only its dependencies and an effect that dispatched has replaced one of *)
(* them, so an effect that is skipped is one that would dispatch nothing.  *)
(* The init effect depends on array and initialState alone and runs at the *)
(* mount only.  Calls from outside (selectA, selectB, undo) are made       *)
(* between renders, when the effects have nothing left to dispatch.        *)
(*                                                                         *)
(* Spec is the undoable hook used as the tests use it; SpecStale adds a    *)
(* caller that calls a prompt object after it has left the screen;         *)
(* SpecResume runs a second hook, started from a copy of the first one's   *)
(* state, side by side with the first.                                     *)
(***************************************************************************)
EXTENDS Integers, Sequences, FiniteSets, TLC

\* Longest input array.
MaxLen == 3
\* Items are drawn from 1..MaxVal.
MaxVal == 3
\* Most calls of undo in one run.
MaxUndo == 2
\* Most calls of selectA/selectB on a prompt that is no longer on screen.
MaxStale == 1

VARIABLES
    array,         \* props.array
    initialState,  \* props.initialState (optional)
    firstRender,   \* TRUE until the effects of the mount have run
    state,         \* the reducer's state
    states,        \* states.current, the snapshot stack of useUndoableMergeSort
    selections,    \* the selections reported to onSelectionMade and not undone
    before,        \* for each of them, the state in which the decision was made
    redo,          \* the decision undone last and the state it had led to
    undos,         \* number of calls of undo
    requests,      \* number of prompts issued
    held,          \* a prompt object the caller kept a reference to
    stales,        \* number of calls made on a kept prompt
    resumedInit,   \* initialState of a second hook, started from a copy of state
    resumedFirst,  \* firstRender of the second hook
    resumed,       \* the second hook's reducer state (optional)
    episodes,      \* the list useSortEpisodes hands to asyncMergeSort
    lifecycle,     \* of the effect of useSortEpisodes: "idle", "running", "tornDown"
    sorter,        \* the progress of the asyncMergeSort call (optional)
    comparison,    \* the promise of the latest comparison: "none", "pending",
                   \* "A" or "B" (fulfilled, the sort not yet resumed), "rejected"
    sortPromise,   \* the promise of asyncMergeSort: "pending", "fulfilled"
                   \* (its then-callback not yet run), "published", "rejected"
    shown,         \* the state of useSortEpisodes (optional)
    heap,          \* the array objects of the hook, by address (1..Len(heap))
    refs,          \* the reducer's state, its lists given by address
    snapshots,     \* states.current, each state with its lists by address
    pushed         \* for each snapshot, the contents of its lists when pushed

\* The second hook.
resumeVars == <<resumedInit, resumedFirst, resumed>>

\* The kept prompt.
staleVars == <<held, stales>>

\* useSortEpisodes.
asyncVars == <<episodes, lifecycle, sorter, comparison, sortPromise, shown>>

\* The merge sort hooks.
hookVars == <<array, initialState, firstRender, state, states, selections, before,
              redo, undos, requests, held, stales, resumedInit, resumedFirst, resumed>>

\* The hook with its arrays as objects.
heapVars == <<heap, refs, snapshots, pushed>>

vars == <<array, initialState, firstRender, state, states, selections, before,
          redo, undos, requests, held, stales, resumedInit, resumedFirst, resumed,
          episodes, lifecycle, sorter, comparison, sortPromise, shown,
          heap, refs, snapshots, pushed>>

----------------------------------------------------------------------------
\* Values

Undefined == <<>>

Some(v) == <<v>>

\* Property read: a missing key reads as undefined.
Get(st, k) == IF k \in DOMAIN st THEN st[k] ELSE Undefined

Items == 1..MaxVal

Arrays == UNION {[1..n -> Items] : n \in 0..MaxLen}

\* array.map((v) => [v])
Singletons(a) == [i \in 1..Len(a) |-> <<a[i]>>]

\* Rest, leaving the second list in moreLists.
RestKeepsSecond(lists) == SubSeq(lists, 2, Len(lists))

\* [first, second, ...rest] = lists; the rest
Rest(lists) == SubSeq(lists, 3, Len(lists))

\* {...oldState, ...newState}
Reducer(oldState, newState) == newState @@ oldState

\* The queue of dispatched partial states, applied in order.
RECURSIVE ApplyAll(_, _)
ApplyAll(st, queue) ==
    IF queue = <<>> THEN st
    ELSE ApplyAll(Reducer(st, Head(queue)), Tail(queue))

\* The reducer's initial state when no initialState is given.
DefaultState ==
    ("result" :> Undefined) @@ ("consideredLists" :> Undefined) @@
    ("moreLists" :> <<>>) @@ ("mergedLists" :> <<>>) @@ ("mergedList" :> <<>>)

----------------------------------------------------------------------------
\* Effects: each yields the partial states it dispatches.

\* InitEffect without the check for the empty array.
InitEffectNoEmptyCheck(arr, init) ==
    IF init # Undefined THEN <<>>
    ELSE << ("result" :> Undefined) @@ ("moreLists" :> Singletons(arr)) >>

\* InitEffect that initializes even when an initialState is given.
InitEffectAlways(arr, init) ==
    IF Len(arr) = 0 THEN << "result" :> Some(<<>>) >>
    ELSE << ("result" :> Undefined) @@ ("moreLists" :> Singletons(arr)) >>

\* InitEffect that handles only the empty array.
InitEffectOnlyEmpty(arr, init) ==
    IF init # Undefined THEN <<>>
    ELSE IF Len(arr) = 0 THEN << "result" :> Some(<<>>) >>
    ELSE <<>>

\* useMergeSort, the initializing effect.
InitEffect(arr, init) ==
    IF init # Undefined THEN <<>>
    ELSE IF Len(arr) = 0 THEN << "result" :> Some(<<>>) >>
    ELSE << ("result" :> Undefined) @@ ("moreLists" :> Singletons(arr)) >>

\* ConsideredListsEffect that puts a single leftover list in front of
\* mergedLists.
ConsideredListsEffectPrepends(st) ==
    LET moreLists == Get(st, "moreLists")
        consideredLists == Get(st, "consideredLists")
        mergedLists == Get(st, "mergedLists")
    IN  IF Len(moreLists) = 0 \/ consideredLists # Undefined THEN <<>>
        ELSE IF Len(moreLists) >= 2
             THEN << "moreLists" :> Rest(moreLists),
                     "consideredLists" :> Some(<<moreLists[1], moreLists[2]>>) >>
             ELSE << "moreLists" :> Rest(moreLists),
                     "mergedLists" :> <<moreLists[1]>> \o mergedLists,
                     "consideredLists" :> Undefined >>

\* ConsideredListsEffect that does not wait for the considered pair to be
\* merged.
ConsideredListsEffectIgnoresConsidered(st) ==
    LET moreLists == Get(st, "moreLists")
        mergedLists == Get(st, "mergedLists")
    IN  IF Len(moreLists) = 0 THEN <<>>
        ELSE IF Len(moreLists) >= 2
             THEN << "moreLists" :> Rest(moreLists),
                     "consideredLists" :> Some(<<moreLists[1], moreLists[2]>>) >>
             ELSE << "moreLists" :> Rest(moreLists),
                     "mergedLists" :> Append(mergedLists, moreLists[1]),
                     "consideredLists" :> Undefined >>

\* useConsideredLists: take the next pair of lists to consider.
ConsideredListsEffect(st) ==
    LET moreLists == Get(st, "moreLists")
        consideredLists == Get(st, "consideredLists")
        mergedLists == Get(st, "mergedLists")
    IN  IF Len(moreLists) = 0 \/ consideredLists # Undefined THEN <<>>
        ELSE IF Len(moreLists) >= 2
        THEN << "moreLists" :> Rest(moreLists),
                "consideredLists" :> Some(<<moreLists[1], moreLists[2]>>) >>
        ELSE << "moreLists" :> Rest(moreLists),
                "mergedLists" :> Append(mergedLists, moreLists[1]),
                "consideredLists" :> Undefined >>

\* Prompt with the two options exchanged.
PromptSwapped(st) ==
    LET consideredLists == Get(st, "consideredLists")[1]
    IN  [optionA |-> Head(consideredLists[2]),
         optionB |-> Head(consideredLists[1]),
         state   |-> st]

\* The prompt object: its options and what selectA/selectB close over.
Prompt(st) ==
    LET consideredLists == Get(st, "consideredLists")[1]
    IN  [optionA |-> Head(consideredLists[1]),
         optionB |-> Head(consideredLists[2]),
         state   |-> st]

\* MergerEffect whose flush forgets the remaining list.
MergerEffectDropsRemainder(st) ==
    LET prompt == Get(st, "prompt")
        consideredLists == Get(st, "consideredLists")
        mergedList == Get(st, "mergedList")
        mergedLists == Get(st, "mergedLists")
    IN  IF prompt # Undefined THEN <<>>
        ELSE IF consideredLists = Undefined THEN <<>>
        ELSE IF consideredLists[1][1] # <<>> /\ consideredLists[1][2] # <<>>
             THEN << "prompt" :> Some(Prompt(st)) >>
             ELSE << "mergedLists" :> Append(mergedLists, mergedList),
                     "mergedList" :> <<>>,
                     "consideredLists" :> Undefined >>

\* MergerEffect that does not return early while a prompt is set.
MergerEffectIgnoresPrompt(st) ==
    LET consideredLists == Get(st, "consideredLists")
        mergedList == Get(st, "mergedList")
        mergedLists == Get(st, "mergedLists")
    IN  IF consideredLists = Undefined THEN <<>>
        ELSE IF consideredLists[1][1] # <<>> /\ consideredLists[1][2] # <<>>
             THEN << "prompt" :> Some(Prompt([k \in DOMAIN st \ {"prompt"} |-> st[k]])) >>
             ELSE << "mergedLists" :>
                        Append(mergedLists, mergedList \o consideredLists[1][1]
                                                \o consideredLists[1][2]),
                     "mergedList" :> <<>>,
                     "consideredLists" :> Undefined >>

\* MergerEffect whose flush puts the remaining list in front of mergedList.
MergerEffectRemainderFirst(st) ==
    LET prompt == Get(st, "prompt")
        consideredLists == Get(st, "consideredLists")
        mergedList == Get(st, "mergedList")
        mergedLists == Get(st, "mergedLists")
    IN  IF prompt # Undefined THEN <<>>
        ELSE IF consideredLists = Undefined THEN <<>>
        ELSE IF consideredLists[1][1] # <<>> /\ consideredLists[1][2] # <<>>
             THEN << "prompt" :> Some(Prompt(st)) >>
             ELSE << "mergedLists" :>
                        Append(mergedLists, consideredLists[1][1]
                                   \o consideredLists[1][2] \o mergedList),
                     "mergedList" :> <<>>,
                     "consideredLists" :> Undefined >>

\* useMerger: prompt for the two heads, or flush the pair.
MergerEffect(st) ==
    LET prompt == Get(st, "prompt")
        consideredLists == Get(st, "consideredLists")
        mergedList == Get(st, "mergedList")
        mergedLists == Get(st, "mergedLists")
    IN  IF prompt # Undefined THEN <<>>
        ELSE IF consideredLists = Undefined THEN <<>>
        ELSE LET listA == consideredLists[1][1]
                 listB == consideredLists[1][2]
             IN  IF listA # <<>> /\ listB # <<>>
                 THEN << "prompt" :> Some(Prompt(st)) >>
                 ELSE LET remainingList ==
                              IF listA # <<>> THEN listA
                              ELSE IF listB # <<>> THEN listB
                              ELSE <<>>
                      IN  << "mergedLists" :>
                                 Append(mergedLists, mergedList \o remainingList),
                             "mergedList" :> <<>>,
                             "consideredLists" :> Undefined >>

\* PassEffect that does not look at moreLists.
PassEffectIgnoresMoreLists(arr, st) ==
    LET consideredLists == Get(st, "consideredLists")
        mergedLists == Get(st, "mergedLists")
    IN  IF consideredLists = Undefined /\ Len(mergedLists) # 0
        THEN IF Len(mergedLists) = 1 /\ Len(mergedLists[1]) = Len(arr)
             THEN << "result" :> Some(mergedLists[1]),
                     "moreLists" :> <<>>,
                     "mergedLists" :> <<>> >>
             ELSE << "moreLists" :> mergedLists,
                     "mergedLists" :> <<>> >>
        ELSE <<>>

\* PassEffect that resets mergedLists only when a further pass follows.
PassEffectKeepsMergedLists(arr, st) ==
    LET moreLists == Get(st, "moreLists")
        consideredLists == Get(st, "consideredLists")
        mergedLists == Get(st, "mergedLists")
    IN  IF consideredLists = Undefined /\ Len(moreLists) = 0 /\ Len(mergedLists) # 0
        THEN IF Len(mergedLists) = 1 /\ Len(mergedLists[1]) = Len(arr)
             THEN << "result" :> Some(mergedLists[1]),
                     "moreLists" :> <<>> >>
             ELSE << "moreLists" :> mergedLists,
                     "mergedLists" :> <<>> >>
        ELSE <<>>

\* PassEffect that always goes on to a further pass.
PassEffectNeverFinal(arr, st) ==
    LET moreLists == Get(st, "moreLists")
        consideredLists == Get(st, "consideredLists")
        mergedLists == Get(st, "mergedLists")
    IN  IF consideredLists = Undefined /\ Len(moreLists) = 0 /\ Len(mergedLists) # 0
        THEN << "moreLists" :> mergedLists,
                "mergedLists" :> <<>> >>
        ELSE <<>>

\* useMergeSortPass: the end of a pass.
PassEffect(arr, st) ==
    LET moreLists == Get(st, "moreLists")
        consideredLists == Get(st, "consideredLists")
        mergedLists == Get(st, "mergedLists")
    IN  IF consideredLists = Undefined /\ Len(moreLists) = 0 /\ Len(mergedLists) # 0
        THEN IF Len(mergedLists) = 1 /\ Len(mergedLists[1]) = Len(arr)
             THEN << "result" :> Some(mergedLists[1]),
                     "moreLists" :> <<>>,
                     "mergedLists" :> <<>> >>
             ELSE << "moreLists" :> mergedLists,
                     "mergedLists" :> <<>> >>
        ELSE <<>>

\* Everything the effects of one render dispatch, in the order the hooks run.
Dispatches(first, arr, init, st) ==
    (IF first THEN InitEffect(arr, init) ELSE <<>>)
        \o ConsideredListsEffect(st) \o MergerEffect(st) \o PassEffect(arr, st)

\* The render after which nothing is dispatched: the hook is at rest.
AtRest == ~firstRender /\ Dispatches(FALSE, array, initialState, state) = <<>>

----------------------------------------------------------------------------
\* SelectDispatches whose selectB shifts list A, as selectA does.
SelectDispatchesShiftA(p, selection) ==
    LET consideredLists == Get(p.state, "consideredLists")[1]
        mergedList == Get(p.state, "mergedList")
    IN  << "mergedList" :> Append(mergedList, IF selection = 0 THEN p.optionA ELSE p.optionB),
           "consideredLists" :> Some(<<Tail(consideredLists[1]), consideredLists[2]>>),
           "prompt" :> Undefined >>

\* SelectDispatches that leaves the prompt set.
SelectDispatchesKeepsPrompt(p, selection) ==
    LET consideredLists == Get(p.state, "consideredLists")[1]
        mergedList == Get(p.state, "mergedList")
    IN  IF selection = 0
        THEN << "mergedList" :> Append(mergedList, p.optionA),
                "consideredLists" :> Some(<<Tail(consideredLists[1]), consideredLists[2]>>) >>
        ELSE << "mergedList" :> Append(mergedList, p.optionB),
                "consideredLists" :> Some(<<consideredLists[1], Tail(consideredLists[2])>>) >>

\* SelectDispatches that puts the selected option in front of mergedList.
SelectDispatchesPrepends(p, selection) ==
    LET consideredLists == Get(p.state, "consideredLists")[1]
        mergedList == Get(p.state, "mergedList")
    IN  IF selection = 0
        THEN << "mergedList" :> <<p.optionA>> \o mergedList,
                "consideredLists" :> Some(<<Tail(consideredLists[1]), consideredLists[2]>>),
                "prompt" :> Undefined >>
        ELSE << "mergedList" :> <<p.optionB>> \o mergedList,
                "consideredLists" :> Some(<<consideredLists[1], Tail(consideredLists[2])>>),
                "prompt" :> Undefined >>

\* What a prompt's selectA (selection 0) or selectB (selection 1) dispatches.
SelectDispatches(p, selection) ==
    LET consideredLists == Get(p.state, "consideredLists")[1]
        mergedList == Get(p.state, "mergedList")
    IN  IF selection = 0
        THEN << "mergedList" :> Append(mergedList, p.optionA),
                "consideredLists" :> Some(<<Tail(consideredLists[1]), consideredLists[2]>>),
                "prompt" :> Undefined >>
        ELSE << "mergedList" :> Append(mergedList, p.optionB),
                "consideredLists" :> Some(<<consideredLists[1], Tail(consideredLists[2])>>),
                "prompt" :> Undefined >>

\* undo: setState({ ...previousState, prompt: undefined })
UndoDispatches(previousState) ==
    << Reducer(previousState, "prompt" :> Undefined) >>

\* The undo callback without its check for an empty stack.
UndoCallNoCheck(stack) ==
    IF stack = <<>> THEN << "prompt" :> Undefined >>
    ELSE UndoDispatches(stack[Len(stack)])

\* The undo callback: states.current.pop(), then setState if a state was popped.
UndoCall(stack) ==
    IF stack = <<>> THEN <<>> ELSE UndoDispatches(stack[Len(stack)])

\* What the hook returns as undo: the callback, or undefined.
UndoOffered(stack) == Len(stack) > 0

----------------------------------------------------------------------------
\* The initial state a caller may supply: as in the test "can start from a
\* midpoint state", the first pair of the array already merged with the
\* second item preferred and the rest not yet considered, written as the
\* test writes it, without a `result` key.
MidpointStates(arr) ==
    IF Len(arr) < 2 THEN {}
    ELSE {("consideredLists" :> Undefined) @@
          ("moreLists" :> Singletons(SubSeq(arr, 3, Len(arr)))) @@
          ("mergedLists" :> << <<arr[2], arr[1]>> >>) @@
          ("mergedList" :> <<>>)}

Init ==
    /\ array \in Arrays
    /\ initialState \in {Undefined} \cup {Some(s) : s \in MidpointStates(array)}
    /\ firstRender = TRUE
    /\ state = IF initialState # Undefined THEN initialState[1] ELSE DefaultState
    /\ states = <<>>
    /\ selections = <<>>
    /\ before = <<>>
    /\ redo = Undefined
    /\ undos = 0
    /\ requests = 0
    /\ held = Undefined
    /\ stales = 0
    /\ resumedInit = Undefined
    /\ resumedFirst = FALSE
    /\ resumed = Undefined
    /\ episodes = <<>>
    /\ lifecycle = "idle"
    /\ sorter = Undefined
    /\ comparison = "none"
    /\ sortPromise = "pending"
    /\ shown = Undefined
    /\ heap = <<>>
    /\ refs = Undefined
    /\ snapshots = <<>>
    /\ pushed = <<>>

\* A prompt is set in the rendered state.
HasPromptOnScreen == Get(state, "prompt") # Undefined

\* One render whose effects dispatch something, and the reducer's result.
Render ==
    LET queue == Dispatches(firstRender, array, initialState, state)
    IN  /\ firstRender \/ queue # <<>>
        /\ state' = ApplyAll(state, queue)
        /\ firstRender' = FALSE
        /\ requests' = IF Get(state', "prompt") # Get(state, "prompt")
                          /\ Get(state', "prompt") # Undefined
                       THEN requests + 1 ELSE requests
        /\ UNCHANGED <<array, initialState, states, selections, before, redo, undos>>
        /\ UNCHANGED <<staleVars, resumeVars, asyncVars, heapVars>>

\* The prompt on screen is answered: what selectA/selectB do to the hook.
SelectStep(selection) ==
    /\ HasPromptOnScreen
    /\ LET p == Get(state, "prompt")[1]
       IN  /\ state' = ApplyAll(state, SelectDispatches(p, selection))
           /\ states' = Append(states, p.state)
    /\ selections' = Append(selections, selection)
    /\ before' = Append(before, state)
    /\ redo' = IF redo # Undefined /\ redo[1].phase = "undone"
                  /\ redo[1].selection = selection
               THEN Some([redo[1] EXCEPT !.phase = "reapplied"])
               ELSE Undefined
    /\ UNCHANGED <<array, initialState, firstRender, undos, requests, asyncVars, heapVars>>

\* The user answers the prompt on screen: prompt.selectA() or prompt.selectB().
Select(selection) == SelectStep(selection) /\ UNCHANGED <<staleVars, resumeVars>>

SelectA == Select(0)

SelectB == Select(1)

\* The user calls undo, which is offered while the stack is not empty.
Undo ==
    /\ AtRest
    /\ UndoOffered(states)
    /\ undos < MaxUndo
    /\ state' = ApplyAll(state, UndoCall(states))
    /\ states' = SubSeq(states, 1, Len(states) - 1)
    /\ redo' = Some([selection |-> selections[Len(selections)],
                     after |-> state, phase |-> "undone"])
    /\ selections' = SubSeq(selections, 1, Len(selections) - 1)
    /\ before' = SubSeq(before, 1, Len(before) - 1)
    /\ undos' = undos + 1
    /\ UNCHANGED <<array, initialState, firstRender, requests>>
    /\ UNCHANGED <<staleVars, resumeVars, asyncVars, heapVars>>

\* The undo callback (one function for the life of the hook) is called while
\* the hook returns no undo: nothing is popped.
UndoNotOffered ==
    /\ AtRest
    /\ ~UndoOffered(states)
    /\ state' = ApplyAll(state, UndoCall(states))
    /\ states' = SubSeq(states, 1, Len(states) - 1)
    /\ UNCHANGED <<array, initialState, firstRender, selections, before, redo,
                   undos, requests>>
    /\ UNCHANGED <<staleVars, resumeVars, asyncVars, heapVars>>

Next == Render \/ SelectA \/ SelectB \/ Undo \/ UndoNotOffered

Spec == Init /\ [][Next]_vars

\* The hook started from the array alone.
InitArray == Init /\ initialState = Undefined

\* React runs the effects of every render: a render whose effects dispatch
\* is followed by the next render.
SpecLive == InitArray /\ [][Next]_vars /\ WF_vars(Render)

\* The caller answers every prompt and never calls undo.
NextAnswered == Render \/ SelectA \/ SelectB

SpecAnswered ==
    Init /\ [][NextAnswered]_vars /\ WF_vars(Render) /\ WF_vars(SelectA \/ SelectB)

----------------------------------------------------------------------------
\* A caller that keeps a prompt object and calls it when it is no longer the
\* prompt on screen.

\* The caller keeps a reference to the prompt on screen.
Retain ==
    /\ HasPromptOnScreen
    /\ held = Undefined
    /\ held' = Get(state, "prompt")
    /\ UNCHANGED <<array, initialState, firstRender, state, states, selections,
                   before, redo, undos, requests, stales, resumeVars, asyncVars,
                   heapVars>>

\* selectA or selectB of the kept prompt, called when another prompt or none
\* is on screen.
StaleSelect(selection) ==
    /\ held # Undefined
    /\ held # Get(state, "prompt")
    /\ AtRest
    /\ stales < MaxStale
    /\ state' = ApplyAll(state, SelectDispatches(held[1], selection))
    /\ states' = Append(states, held[1].state)
    /\ selections' = Append(selections, selection)
    /\ before' = Append(before, state)
    /\ redo' = Undefined
    /\ stales' = stales + 1
    /\ UNCHANGED <<array, initialState, firstRender, undos, requests, held,
                   resumeVars, asyncVars, heapVars>>

StaleSelectA == StaleSelect(0)

StaleSelectB == StaleSelect(1)

NextStale == Render \/ SelectA \/ SelectB \/ Undo \/ Retain \/ StaleSelectA \/ StaleSelectB

SpecStale == Init /\ [][NextStale]_vars

----------------------------------------------------------------------------
\* A second hook started from an initialState that is a copy of the fields
\* of the first hook's state, and given the same decisions from then on.

\* The state as a caller writes it down: without the prompt, and (as the test
\* does) with or without a `result` key when result is undefined.
Copied(st, withResultKey) ==
    LET dropped == IF ~withResultKey /\ Get(st, "result") = Undefined
                   THEN {"prompt", "result"} ELSE {"prompt"}
    IN  [k \in DOMAIN st \ dropped |-> st[k]]

\* The second hook is at rest.
ResumedAtRest ==
    /\ resumed # Undefined
    /\ ~resumedFirst
    /\ Dispatches(FALSE, array, resumedInit, resumed[1]) = <<>>

\* Before the copy is taken the first hook runs alone.
AloneRender == resumed = Undefined /\ Render

AloneSelectA == resumed = Undefined /\ SelectA

AloneSelectB == resumed = Undefined /\ SelectB

\* Mount the second hook with initialState = the copy of the current state.
Resume(withResultKey) ==
    /\ ~firstRender
    /\ resumed = Undefined
    /\ resumedInit' = Some(Copied(state, withResultKey))
    /\ resumed' = resumedInit'
    /\ resumedFirst' = TRUE
    /\ UNCHANGED <<array, initialState, firstRender, state, states, selections,
                   before, redo, undos, requests, staleVars, asyncVars, heapVars>>

ResumeWithResultKey == Resume(TRUE)

ResumeWithoutResultKey == Resume(FALSE)

\* One render of each hook that has something to dispatch.
BothRender ==
    LET queue == Dispatches(firstRender, array, initialState, state)
        resumedQueue == Dispatches(resumedFirst, array, resumedInit, resumed[1])
    IN  /\ resumed # Undefined
        /\ resumedFirst \/ queue # <<>> \/ resumedQueue # <<>>
        /\ state' = ApplyAll(state, queue)
        /\ resumed' = Some(ApplyAll(resumed[1], resumedQueue))
        /\ resumedFirst' = FALSE
        /\ requests' = IF Get(state', "prompt") # Get(state, "prompt")
                          /\ Get(state', "prompt") # Undefined
                       THEN requests + 1 ELSE requests
        /\ UNCHANGED <<array, initialState, firstRender, states, selections,
                       before, redo, undos, staleVars, resumedInit, asyncVars,
                       heapVars>>

\* The same decision is given to both hooks, each through its own prompt.
BothSelect(selection) ==
    /\ AtRest /\ ResumedAtRest
    /\ HasPromptOnScreen
    /\ Get(resumed[1], "prompt") # Undefined
    /\ SelectStep(selection)
    /\ resumed' = Some(ApplyAll(resumed[1],
                          SelectDispatches(Get(resumed[1], "prompt")[1], selection)))
    /\ UNCHANGED <<staleVars, resumedInit, resumedFirst>>

BothSelectA == BothSelect(0)

BothSelectB == BothSelect(1)

NextResume ==
    \/ AloneRender \/ AloneSelectA \/ AloneSelectB
    \/ ResumeWithResultKey \/ ResumeWithoutResultKey
    \/ BothRender \/ BothSelectA \/ BothSelectB

\* The first hook is started from the array.
InitResume == Init /\ initialState = Undefined

SpecResume == InitResume /\ [][NextResume]_vars

----------------------------------------------------------------------------
\* useSortEpisodes: the variant that hands a promise-returning comparator to
\* asyncMergeSort. asyncMergeSort is not among the sources; it is modelled as
\* a merge sort that calls the comparator once per comparison, awaits the
\* promise, fails when the promise is rejected, and resolves to the sorted
\* list. The merge sort hook is "based on" the same algorithm, so its steps
\* serve as the steps of the sort. A promise's reactions run after the code
\* that settled it has returned: settling and resuming are two steps.

\* asyncMergeSort runs until it needs a comparison or has the sorted list.
RECURSIVE SortUntilCompare(_, _)
SortUntilCompare(arr, st) ==
    LET queue == Dispatches(FALSE, arr, Undefined, st)
    IN  IF queue = <<>> THEN st ELSE SortUntilCompare(arr, ApplyAll(st, queue))

\* asyncMergeSort(array, compare) up to its first comparison.
SortStart(arr) ==
    SortUntilCompare(arr, ApplyAll(DefaultState, InitEffect(arr, Undefined)))

\* asyncMergeSort resumed with the comparator's answer, -1 (selection 0) or
\* 1 (selection 1), up to its next comparison.
SortResume(arr, st, selection) ==
    SortUntilCompare(arr,
        ApplyAll(st, SelectDispatches(Get(st, "prompt")[1], selection)))

\* The sort has the sorted list.
SortFinished(st) == Get(st, "result") # Undefined

\* setState({a, b, selectA, selectB}) of the comparator.
ShownPair(st) ==
    Some([a |-> Some(Get(st, "prompt")[1].optionA),
          b |-> Some(Get(st, "prompt")[1].optionB),
          episodes |-> Undefined])

\* setState({episodes: sorted}) of the then-callback.
ShownSorted(sorted) ==
    Some([a |-> Undefined, b |-> Undefined, episodes |-> Some(sorted)])

\* The sort reaches a comparison (the comparator creates the promise, keeps
\* its reject in innerReject and sets the state) or its end.
SortArrivesAt(st) ==
    /\ sorter' = Some(st)
    /\ IF SortFinished(st)
       THEN /\ comparison' = "none"
            /\ sortPromise' = "fulfilled"
            /\ shown' = shown
       ELSE /\ comparison' = "pending"
            /\ sortPromise' = sortPromise
            /\ shown' = ShownPair(st)

\* The effect runs: asyncMergeSort is called and runs to its first comparison.
Mount ==
    /\ lifecycle = "idle"
    /\ lifecycle' = "running"
    /\ SortArrivesAt(SortStart(episodes))
    /\ UNCHANGED <<episodes, hookVars, heapVars>>

\* The user clicks a button of the pair shown: resolve(-1) or resolve(1),
\* which settles the promise only if it is still pending.
Click(selection) ==
    /\ shown # Undefined
    /\ shown[1].a # Undefined /\ shown[1].b # Undefined
    /\ comparison' = IF comparison = "pending"
                     THEN (IF selection = 0 THEN "A" ELSE "B")
                     ELSE comparison
    /\ UNCHANGED <<episodes, lifecycle, sorter, sortPromise, shown, hookVars,
                   heapVars>>

ClickA == Click(0)

ClickB == Click(1)

\* The settled comparison is delivered to asyncMergeSort: an answer resumes
\* it up to the next comparison or to its end, a rejection makes it fail.
Continue ==
    /\ comparison \in {"A", "B", "rejected"}
    /\ IF comparison = "rejected"
       THEN /\ comparison' = "none"
            /\ sortPromise' = "rejected"
            /\ UNCHANGED <<sorter, shown>>
       ELSE SortArrivesAt(SortResume(episodes, sorter[1],
                                     IF comparison = "A" THEN 0 ELSE 1))
    /\ UNCHANGED <<episodes, lifecycle, hookVars, heapVars>>

\* The then-callback of the fulfilled sort: setState({episodes: sorted}).
Publish ==
    /\ sortPromise = "fulfilled"
    /\ sortPromise' = "published"
    /\ shown' = ShownSorted(Get(sorter[1], "result")[1])
    /\ UNCHANGED <<episodes, lifecycle, sorter, comparison, hookVars,
                   heapVars>>

\* The effect's cleanup: innerReject(new Error("Tearing down")). innerReject
\* is the reject of the latest promise, or does nothing if there was none;
\* rejecting a settled promise does nothing.
Teardown ==
    /\ lifecycle = "running"
    /\ lifecycle' = "tornDown"
    /\ comparison' = IF comparison = "pending" THEN "rejected" ELSE comparison
    /\ UNCHANGED <<episodes, sorter, sortPromise, shown, hookVars, heapVars>>

NextAsync == Mount \/ ClickA \/ ClickB \/ Continue \/ Publish \/ Teardown

\* The episodes are a catalog of more than one item.
InitAsync ==
    /\ episodes \in {a \in Arrays : Len(a) >= 2}
    /\ lifecycle = "idle"
    /\ sorter = Undefined
    /\ comparison = "none"
    /\ sortPromise = "pending"
    /\ shown = Undefined
    /\ array = <<>>
    /\ initialState = Undefined
    /\ firstRender = TRUE
    /\ state = DefaultState
    /\ states = <<>>
    /\ selections = <<>>
    /\ before = <<>>
    /\ redo = Undefined
    /\ undos = 0
    /\ requests = 0
    /\ held = Undefined
    /\ stales = 0
    /\ resumedInit = Undefined
    /\ resumedFirst = FALSE
    /\ resumed = Undefined
    /\ heap = <<>>
    /\ refs = Undefined
    /\ snapshots = <<>>
    /\ pushed = <<>>

SpecAsync == InitAsync /\ [][NextAsync]_vars

----------------------------------------------------------------------------
\* The undoable hook with its arrays as objects. A JavaScript array is an
\* object: two fields, or a state and a snapshot, may hold the same array,
\* and a change made to it in place shows through both. Here every array the
\* hook creates has an address in `heap`; the lists of lists hold addresses of
\* lists of items, and a state holds the addresses of its lists. State
\* objects themselves are only ever created, by the reducer, never written.

\* An effect's outcome: the heap with the arrays it created, and what it
\* dispatches.
Outcome(h, queue) == [heap |-> h, queue |-> queue]

\* The reducer's initial state, its three empty arrays created.
HeapDefault == << <<>>, <<>>, <<>> >>

RefsDefault ==
    ("result" :> Undefined) @@ ("consideredLists" :> Undefined) @@
    ("moreLists" :> 1) @@ ("mergedLists" :> 2) @@ ("mergedList" :> 3)

\* The init effect: array.map((v) => [v]) creates one array per item and the
\* array of them; `result: []` creates an empty array.
HeapInitEffect(arr, h) ==
    LET n == Len(arr)
    IN  IF n = 0
        THEN Outcome(Append(h, <<>>), << "result" :> Some(Len(h) + 1) >>)
        ELSE Outcome(h \o [i \in 1..n |-> <<arr[i]>>]
                       \o << [i \in 1..n |-> Len(h) + i] >>,
                     << ("result" :> Undefined) @@ ("moreLists" :> Len(h) + n + 1) >>)

\* useConsideredLists: the destructuring creates newMoreLists; [A, B] is a
\* new pair of the two arrays themselves; addMergedList creates a new array
\* of lists that holds A itself.
HeapConsideredListsEffect(st, h) ==
    LET moreLists == h[Get(st, "moreLists")]
        new == Len(h) + 1
    IN  IF Len(moreLists) = 0 \/ Get(st, "consideredLists") # Undefined
        THEN Outcome(h, <<>>)
        ELSE IF Len(moreLists) >= 2
        THEN Outcome(h \o << SubSeq(moreLists, 3, Len(moreLists)),
                             <<moreLists[1], moreLists[2]>> >>,
                     << "moreLists" :> new,
                        "consideredLists" :> Some(new + 1) >>)
        ELSE Outcome(h \o << SubSeq(moreLists, 3, Len(moreLists)),
                             Append(h[Get(st, "mergedLists")], moreLists[1]) >>,
                     << "moreLists" :> new,
                        "mergedLists" :> new + 1,
                        "consideredLists" :> Undefined >>)

\* useMerger: the prompt closes over the rendered state; the flush creates
\* the merged list, a new array of lists and a new empty mergedList.
HeapMergerEffect(st, h) ==
    IF Get(st, "prompt") # Undefined \/ Get(st, "consideredLists") = Undefined
    THEN Outcome(h, <<>>)
    ELSE LET consideredLists == h[Get(st, "consideredLists")[1]]
             listA == h[consideredLists[1]]
             listB == h[consideredLists[2]]
             new == Len(h) + 1
         IN  IF listA # <<>> /\ listB # <<>>
             THEN Outcome(h, << "prompt" :> Some([optionA |-> Head(listA),
                                                  optionB |-> Head(listB),
                                                  state |-> st]) >>)
             ELSE Outcome(h \o << h[Get(st, "mergedList")]
                                      \o (IF listA # <<>> THEN listA ELSE listB),
                                  Append(h[Get(st, "mergedLists")], new),
                                  <<>> >>,
                          << "mergedLists" :> new + 1,
                             "mergedList" :> new + 2,
                             "consideredLists" :> Undefined >>)

\* The end of a pass: setResult(mergedLists[0]) and setMoreLists(mergedLists)
\* hand on the arrays themselves; `[]` creates an empty array.
HeapPassEffect(arr, st, h) ==
    LET mergedLists == h[Get(st, "mergedLists")]
        new == Len(h) + 1
    IN  IF /\ Get(st, "consideredLists") = Undefined
           /\ Len(h[Get(st, "moreLists")]) = 0
           /\ Len(mergedLists) # 0
        THEN IF Len(mergedLists) = 1 /\ Len(h[mergedLists[1]]) = Len(arr)
             THEN Outcome(h \o << <<>>, <<>> >>,
                          << "result" :> Some(mergedLists[1]),
                             "moreLists" :> new,
                             "mergedLists" :> new + 1 >>)
             ELSE Outcome(Append(h, <<>>),
                          << "moreLists" :> Get(st, "mergedLists"),
                             "mergedLists" :> new >>)
        ELSE Outcome(h, <<>>)

\* The effects of one render, in the order the hooks run, each reading the
\* rendered state.
HeapDispatches(first, arr, st, h) ==
    LET init == IF first THEN HeapInitEffect(arr, h) ELSE Outcome(h, <<>>)
        considered == HeapConsideredListsEffect(st, init.heap)
        merger == HeapMergerEffect(st, considered.heap)
        pass == HeapPassEffect(arr, st, merger.heap)
    IN  Outcome(pass.heap,
                init.queue \o considered.queue \o merger.queue \o pass.queue)

HeapAtRest == ~firstRender /\ HeapDispatches(FALSE, array, refs, heap).queue = <<>>

\* selectA/selectB that shift the considered list itself instead of a copy.
HeapSelectInPlace(p, selection, h) ==
    LET consideredLists == h[Get(p.state, "consideredLists")[1]]
        shifted == consideredLists[selection + 1]
    IN  Outcome([Append(h, Append(h[Get(p.state, "mergedList")],
                                  IF selection = 0 THEN p.optionA ELSE p.optionB))
                    EXCEPT ![shifted] = Tail(h[shifted])],
                << "mergedList" :> Len(h) + 1,
                   "consideredLists" :> Get(p.state, "consideredLists"),
                   "prompt" :> Undefined >>)

\* selectA (selection 0) or selectB (selection 1): a new mergedList, a new
\* pair of copies of the two considered lists, and shift() on one of the
\* copies, the only change the hook makes to an array in place.
HeapSelect(p, selection, h) ==
    LET consideredLists == h[Get(p.state, "consideredLists")[1]]
        new == Len(h) + 1
        created == h \o << Append(h[Get(p.state, "mergedList")],
                                  IF selection = 0 THEN p.optionA ELSE p.optionB),
                           h[consideredLists[1]],
                           h[consideredLists[2]],
                           <<new + 1, new + 2>> >>
        shifted == new + 1 + selection
    IN  Outcome([created EXCEPT ![shifted] = Tail(created[shifted])],
                << "mergedList" :> new,
                   "consideredLists" :> Some(new + 3),
                   "prompt" :> Undefined >>)

\* The contents of the lists of a state.
Contents(h, st) ==
    LET Lists(a) == [i \in 1..Len(h[a]) |-> h[h[a][i]]]
    IN  [moreLists |-> Lists(Get(st, "moreLists")),
         consideredLists |-> IF Get(st, "consideredLists") = Undefined THEN Undefined
                             ELSE Some(Lists(Get(st, "consideredLists")[1])),
         mergedList |-> h[Get(st, "mergedList")],
         mergedLists |-> Lists(Get(st, "mergedLists"))]

\* The hook never looks into an item, so which arrays are created and shared
\* depends on the length of the array alone: one array of each length.
InitHeap ==
    /\ array \in {[i \in 1..n |-> ((i - 1) % MaxVal) + 1] : n \in 0..MaxLen}
    /\ firstRender = TRUE
    /\ heap = HeapDefault
    /\ refs = RefsDefault
    /\ snapshots = <<>>
    /\ pushed = <<>>
    /\ undos = 0
    /\ initialState = Undefined
    /\ state = DefaultState
    /\ states = <<>>
    /\ selections = <<>>
    /\ before = <<>>
    /\ redo = Undefined
    /\ requests = 0
    /\ held = Undefined
    /\ stales = 0
    /\ resumedInit = Undefined
    /\ resumedFirst = FALSE
    /\ resumed = Undefined
    /\ episodes = <<>>
    /\ lifecycle = "idle"
    /\ sorter = Undefined
    /\ comparison = "none"
    /\ sortPromise = "pending"
    /\ shown = Undefined

\* What the heap actions leave alone.
heapFrame == <<array, initialState, state, states, selections, before, redo,
               requests, held, stales, resumeVars, asyncVars>>

\* One render whose effects dispatch something.
HeapRender ==
    LET outcome == HeapDispatches(firstRender, array, refs, heap)
    IN  /\ firstRender \/ outcome.queue # <<>>
        /\ heap' = outcome.heap
        /\ refs' = ApplyAll(refs, outcome.queue)
        /\ firstRender' = FALSE
        /\ UNCHANGED <<snapshots, pushed, undos, heapFrame>>

\* The prompt on screen is answered; onSelectionMade pushes the state the
\* prompt closes over.
HeapAnswer(selection) ==
    /\ Get(refs, "prompt") # Undefined
    /\ LET p == Get(refs, "prompt")[1]
           outcome == HeapSelect(p, selection, heap)
       IN  /\ heap' = outcome.heap
           /\ refs' = ApplyAll(refs, outcome.queue)
           /\ snapshots' = Append(snapshots, p.state)
           /\ pushed' = Append(pushed, Contents(heap', p.state))
    /\ UNCHANGED <<firstRender, undos, heapFrame>>

HeapAnswerA == HeapAnswer(0)

HeapAnswerB == HeapAnswer(1)

\* undo: the top snapshot is popped and dispatched.
HeapUndo ==
    /\ HeapAtRest
    /\ UndoOffered(snapshots)
    /\ undos < MaxUndo
    /\ refs' = ApplyAll(refs, UndoCall(snapshots))
    /\ snapshots' = SubSeq(snapshots, 1, Len(snapshots) - 1)
    /\ pushed' = SubSeq(pushed, 1, Len(pushed) - 1)
    /\ undos' = undos + 1
    /\ UNCHANGED <<heap, firstRender, heapFrame>>

NextHeap == HeapRender \/ HeapAnswerA \/ HeapAnswerB \/ HeapUndo

SpecHeap == InitHeap /\ [][NextHeap]_vars

----------------------------------------------------------------------------
\* Observations used by the properties.

FieldKeys == {"result", "consideredLists", "moreLists", "mergedLists", "mergedList"}

\* The five fields of a state, a missing key read as undefined.
Fields(st) == [k \in FieldKeys |-> Get(st, k)]

\* The request on screen: the two options, if a prompt is set.
Request(st) ==
    IF Get(st, "prompt") = Undefined THEN Undefined
    ELSE Some(<<Get(st, "prompt")[1].optionA, Get(st, "prompt")[1].optionB>>)

\* What a caller sees of a state: its fields and the request.
View(st) == [fields |-> Fields(st), request |-> Request(st)]

HasResult(st) == Get(st, "result") # Undefined

HasPrompt(st) == Get(st, "prompt") # Undefined

\* Started from the array, not from an initialState.
Natural == initialState = Undefined

RECURSIVE Flatten(_)
Flatten(lists) == IF lists = <<>> THEN <<>> ELSE Head(lists) \o Flatten(Tail(lists))

\* Every item held by the working lists of a state.
AllItems(st) ==
    Flatten(Get(st, "moreLists"))
        \o (IF Get(st, "consideredLists") = Undefined THEN <<>>
            ELSE Flatten(Get(st, "consideredLists")[1]))
        \o Get(st, "mergedList")
        \o Flatten(Get(st, "mergedLists"))

Count(v, seq) == Cardinality({i \in 1..Len(seq) : seq[i] = v})

SameMultiset(s, t) == Len(s) = Len(t) /\ \A v \in Items : Count(v, s) = Count(v, t)

Distinct(seq) == \A i, j \in 1..Len(seq) : seq[i] = seq[j] => i = j

\* The total orders on the items of a sequence of distinct items, each written
\* as the sequence of the items from first to last.
Orders(seq) == {[i \in 1..Len(seq) |-> seq[f[i]]] : f \in Permutations(1..Len(seq))}

Position(ord, v) == CHOOSE i \in 1..Len(ord) : ord[i] = v

\* Every decision made (and not undone) chose the option that comes first in ord.
AnsweredBy(ord) ==
    \A i \in 1..Len(selections) :
        LET asked == Request(before[i])[1]
            chosen == IF selections[i] = 0 THEN asked[1] ELSE asked[2]
            other == IF selections[i] = 0 THEN asked[2] ELSE asked[1]
        IN  Position(ord, chosen) < Position(ord, other)

RECURSIVE CeilLog2(_)
CeilLog2(n) == IF n <= 1 THEN 0 ELSE 1 + CeilLog2((n + 1) \div 2)

----------------------------------------------------------------------------
\* C1: for an array of distinct items sorted from the array, when every
\* decision made was consistent with a total order, a result that is set is
\* the items in that order, and the hook never rests without a prompt before
\* the result is set.
C1_SortsByTheAnswers ==
    (Natural /\ Distinct(array) /\ (HasResult(state) \/ AtRest)) =>
        \A ord \in Orders(array) :
            AnsweredBy(ord) =>
                /\ HasResult(state) => Get(state, "result") = Some(ord)
                /\ AtRest => (HasResult(state) \/ HasPrompt(state))

\* Three distinct items were sorted into the reverse of the input.
C1_Witness ==
    /\ Natural /\ Distinct(array) /\ Len(array) = 3
    /\ Get(state, "result") = Some(<<array[3], array[2], array[1]>>)
    /\ Len(selections) = 2

\* C2: sorting from the array without undo, the number of prompts issued is
\* at most n * ceil(log2 n).
C2_RequestBound ==
    (Natural /\ undos = 0 /\ stales = 0) =>
        requests <= Len(array) * CeilLog2(Len(array))

\* A sort of three items that took three prompts is complete.
C2_Witness ==
    /\ Natural /\ undos = 0 /\ Len(array) = 3
    /\ HasResult(state) /\ requests = 3

\* C6: after initialization, while result is undefined, the items of
\* moreLists, consideredLists, mergedList and mergedLists together are the
\* items of the input array, each as often as in the array.
C6_ItemsConserved ==
    (~firstRender /\ ~HasResult(state)) => SameMultiset(AllItems(state), array)

\* A pair is half merged after an undo: items sit in all of consideredLists,
\* mergedList and mergedLists.
C6_Witness ==
    /\ ~HasResult(state) /\ undos > 0 /\ Len(array) = 3
    /\ Get(state, "consideredLists") # Undefined
    /\ Get(state, "mergedList") # <<>>
    /\ SameMultiset(AllItems(state), array)

\* C8: for the empty array the result is the empty list once the mount's
\* effects have run, and no prompt is ever set.
C8_EmptyInput ==
    array = <<>> =>
        /\ ~HasPrompt(state)
        /\ requests = 0
        /\ ~firstRender => Get(state, "result") = Some(<<>>)

\* The empty array has been mounted.
C8_Witness == array = <<>> /\ ~firstRender /\ Get(state, "result") = Some(<<>>)

\* C3: undo puts back the five fields of the state in which the undone
\* decision was made and leaves no prompt set; making the same decision
\* again leads, at the next rest, to the fields and request it had led to.
C3_UndoRestores ==
    [][/\ Undo => /\ Fields(state') = Fields(before[Len(before)])
                  /\ ~HasPrompt(state')
       /\ (redo' # Undefined /\ AtRest') =>
              (redo'[1].phase = "reapplied" => View(state') = View(redo'[1].after))
      ]_vars

\* C9: while a prompt is set no effect dispatches anything, and the state
\* changes only by a call of selectA, selectB or undo.
C9_IdleWhilePrompting ==
    [][HasPrompt(state) =>
          /\ Dispatches(firstRender, array, initialState, state) = <<>>
          /\ state' # state => (SelectA \/ SelectB \/ Undo)
      ]_vars

\* A second request is on screen, the first having been answered.
C9_Witness ==
    /\ HasPrompt(state) /\ Len(states) = 1 /\ requests = 2
    /\ Dispatches(firstRender, array, initialState, state) = <<>>

\* C10: whenever result is defined, no prompt is set and consideredLists is
\* undefined.
C10_ResultMeansIdle ==
    HasResult(state) =>
        (~HasPrompt(state) /\ Get(state, "consideredLists") = Undefined)

\* C5: a call of selectA or selectB on a prompt that is not the one on screen
\* is rejected: it changes neither the state nor the snapshot stack.
C5_StaleCallRejected ==
    [][(StaleSelectA \/ StaleSelectB) => (state' = state /\ states' = states)]_vars

\* C7: once result is set, no effect dispatches anything and no call of
\* selectA or selectB, of the current or of an earlier prompt, changes the
\* state.
C7_ResultIsFinal ==
    [][(HasResult(state) /\ ~Undo) =>
          /\ Dispatches(firstRender, array, initialState, state) = <<>>
          /\ state' = state
      ]_vars

\* C4: a hook started from an initialState that copies the fields of a
\* state reached from the array, and given the same decisions, shows at every
\* rest the same request and has the same fields (the result among them) as
\* the hook it was copied from.
C4_ResumedRunsAlike ==
    (resumed # Undefined /\ AtRest /\ ResumedAtRest) =>
        View(resumed[1]) = View(state)

\* The test's midpoint: for [3, 1, 2] the second hook was started from
\* moreLists [[2]], mergedLists [[1, 3]] (no result key), and both hooks have
\* arrived at the result [1, 2, 3].
C4_Witness ==
    /\ array = <<3, 1, 2>>
    /\ resumed # Undefined /\ AtRest /\ ResumedAtRest
    /\ resumedInit[1] = ("consideredLists" :> Undefined) @@ ("moreLists" :> << <<2>> >>)
                           @@ ("mergedLists" :> << <<1, 3>> >>) @@ ("mergedList" :> <<>>)
    /\ Get(resumed[1], "result") = Some(<<1, 2, 3>>)
    /\ Get(state, "result") = Some(<<1, 2, 3>>)

\* C11: for the array [3, 1, 2] the first request is (3, 1); after it is
\* answered B the next request is (3, 2).
C11_SecondRequestAsClaimed ==
    (Natural /\ array = <<3, 1, 2>> /\ HasPrompt(state)) =>
        /\ selections = <<>> => Request(state) = Some(<<3, 1>>)
        /\ selections = <<1>> => Request(state) = Some(<<3, 2>>)

\* C11, amended: for the array [3, 1, 2] the first request is (3, 1); after
\* it is answered B the next request is (1, 2), and after that one is
\* answered A the next request is (3, 2).
C11_RequestsOfTheTest ==
    (Natural /\ array = <<3, 1, 2>> /\ HasPrompt(state)) =>
        /\ selections = <<>> => Request(state) = Some(<<3, 1>>)
        /\ selections = <<1>> => Request(state) = Some(<<1, 2>>)
        /\ selections = <<1, 0>> => Request(state) = Some(<<3, 2>>)

\* The third request of the test is on screen.
C11_Witness ==
    /\ Natural /\ array = <<3, 1, 2>> /\ selections = <<1, 0>>
    /\ Request(state) = Some(<<3, 2>>)

\* C12: a decision pushes one snapshot, whose fields are those of the state
\* in which the decision was made, on top of the stack; undo removes the top
\* snapshot; a render leaves the stack alone; undo is offered exactly when
\* the stack is not empty; the undo callback called on an empty stack changes
\* neither the state nor the stack.
C12_SnapshotStack ==
    [][/\ (SelectA \/ SelectB) =>
              /\ Len(states') = Len(states) + 1
              /\ SubSeq(states', 1, Len(states)) = states
              /\ Fields(states'[Len(states')]) = Fields(state)
       /\ Undo =>
              /\ states # <<>>
              /\ states' = SubSeq(states, 1, Len(states) - 1)
              /\ Fields(state') = Fields(Reducer(state, states[Len(states)]))
       /\ Render => states' = states
       /\ UndoOffered(states) <=> states # <<>>
       /\ (AtRest /\ states = <<>>) =>
              ApplyAll(state, UndoCall(states)) = state
      ]_vars

\* Two decisions were made, one was undone, and a prompt is on screen with
\* one snapshot left.
C12_Witness ==
    /\ undos = 1 /\ Len(states) = 1 /\ HasPrompt(state)
    /\ Fields(states[1]) = Fields(before[1])

\* C14: at rest with no result, a prompt is set exactly when consideredLists
\* is defined with both lists non-empty, and its options are the heads of
\* the two considered lists.
C14_PromptShowsTheHeads ==
    (AtRest /\ ~HasResult(state)) =>
        LET consideredLists == Get(state, "consideredLists")
            bothNonEmpty == /\ consideredLists # Undefined
                            /\ consideredLists[1][1] # <<>>
                            /\ consideredLists[1][2] # <<>>
        IN  /\ HasPrompt(state) <=> bothNonEmpty
            /\ HasPrompt(state) =>
                   Request(state) = Some(<<Head(consideredLists[1][1]),
                                           Head(consideredLists[1][2])>>)

\* At rest after a decision, the prompt shows the second item of a list.
C14_Witness ==
    /\ AtRest /\ ~HasResult(state) /\ HasPrompt(state)
    /\ Len(selections) > 0
    /\ Len(Get(state, "mergedList")) > 0

\* The end-of-pass effect sets the result: the guard it is taken under and
\* what it leaves.
PassCompletes ==
    /\ Render
    /\ Get(state, "moreLists") = <<>>
    /\ Get(state, "consideredLists") = Undefined
    /\ Len(Get(state, "mergedLists")) = 1
    /\ Len(Get(state, "mergedLists")[1]) = Len(array)
    /\ Get(state', "result") = Some(Get(state, "mergedLists")[1])
    /\ Get(state', "moreLists") = <<>>
    /\ Get(state', "mergedLists") = <<>>

\* C17: a render that empties a non-empty mergedLists starts from moreLists
\* empty and consideredLists undefined; unless it sets the result, moreLists
\* becomes exactly the former mergedLists, and nothing else changes.
C17_PassAdvance ==
    [][(/\ Render
        /\ Get(state, "mergedLists") # <<>>
        /\ Get(state', "mergedLists") = <<>>) =>
           /\ Get(state, "moreLists") = <<>>
           /\ Get(state, "consideredLists") = Undefined
           /\ \/ PassCompletes
              \/ /\ Get(state', "moreLists") = Get(state, "mergedLists")
                 /\ Get(state', "result") = Get(state, "result")
           /\ Get(state', "consideredLists") = Undefined
           /\ Get(state', "mergedList") = Get(state, "mergedList")
           /\ Get(state', "prompt") = Get(state, "prompt")
      ]_vars

\* A second pass has begun: moreLists holds a merged pair and a single item.
C17_Witness ==
    /\ ~HasResult(state)
    /\ Get(state, "mergedLists") = <<>>
    /\ Len(Get(state, "moreLists")) = 2
    /\ Len(Get(state, "moreLists")[1]) = 2
    /\ Len(selections) = 1

\* C18: result changes from undefined to a list only in a pass-completion
\* step.
C18_ResultOnlyByPassCompletion ==
    [][(~HasResult(state) /\ HasResult(state')) => PassCompletes]_vars

\* C18, amended: result changes from undefined to a list only in a
\* pass-completion step, or, for the empty array, in the first render, which
\* sets it to the empty list.
C18_ResultByPassOrEmptyInit ==
    [][(~HasResult(state) /\ HasResult(state')) =>
           \/ PassCompletes
           \/ /\ Render /\ firstRender /\ Natural /\ array = <<>>
              /\ Get(state', "result") = Some(<<>>)
      ]_vars

\* The result of three items was set by the end-of-pass effect.
C18_Witness ==
    /\ HasResult(state) /\ Len(array) = 3 /\ Len(selections) >= 2
    /\ Get(state, "moreLists") = <<>> /\ Get(state, "mergedLists") = <<>>

\* C19: the scheduler dispatches only when consideredLists is undefined and
\* moreLists is not empty; then a render makes the first two lists the
\* considered pair, in their order, and keeps the others in moreLists; a
\* single list goes to the end of mergedLists, moreLists becomes empty,
\* consideredLists stays undefined and no prompt is set.
C19_Scheduler ==
    [][LET moreLists == Get(state, "moreLists")
           enabled == Get(state, "consideredLists") = Undefined /\ moreLists # <<>>
       IN  /\ ~enabled => ConsideredListsEffect(state) = <<>>
           /\ (enabled /\ Render) =>
                  /\ Get(state', "mergedList") = Get(state, "mergedList")
                  /\ Get(state', "result") = Get(state, "result")
                  /\ Get(state', "prompt") = Get(state, "prompt")
                  /\ IF Len(moreLists) >= 2
                     THEN /\ Get(state', "consideredLists") =
                                 Some(<<moreLists[1], moreLists[2]>>)
                          /\ Get(state', "moreLists") =
                                 SubSeq(moreLists, 3, Len(moreLists))
                          /\ Get(state', "mergedLists") = Get(state, "mergedLists")
                     ELSE /\ Get(state', "consideredLists") = Undefined
                          /\ Get(state', "moreLists") = <<>>
                          /\ Get(state', "mergedLists") =
                                 Append(Get(state, "mergedLists"), moreLists[1])
                          /\ Get(state', "prompt") = Undefined
      ]_vars

\* The odd third list was moved behind the merged pair.
C19_Witness ==
    /\ Len(Get(state, "mergedLists")) = 2
    /\ Len(Get(state, "mergedLists")[1]) = 2
    /\ Len(Get(state, "mergedLists")[2]) = 1
    /\ Get(state, "moreLists") = <<>>
    /\ Get(state, "consideredLists") = Undefined

\* The effect of answering with list i (1 for A, 2 for B) on the fields.
Resolved(i) ==
    LET consideredLists == Get(state, "consideredLists")[1]
    IN  /\ Get(state', "mergedList") =
               Append(Get(state, "mergedList"), Head(consideredLists[i]))
        /\ Get(state', "consideredLists") =
               Some([consideredLists EXCEPT ![i] = Tail(consideredLists[i])])
        /\ Get(state', "prompt") = Undefined
        /\ Get(state', "moreLists") = Get(state, "moreLists")
        /\ Get(state', "mergedLists") = Get(state, "mergedLists")
        /\ Get(state', "result") = Get(state, "result")

\* C20: selectA appends the head of consideredLists[0] to mergedList, removes
\* it from consideredLists[0] and clears the prompt, leaving
\* consideredLists[1], moreLists, mergedLists and result as they were;
\* selectB does the same with consideredLists[1].
C20_SelectFrame ==
    [][(SelectA => Resolved(1)) /\ (SelectB => Resolved(2))]_vars

\* A second item was appended behind the first of a merged list.
C20_Witness ==
    /\ ~HasPrompt(state) /\ ~AtRest
    /\ Len(Get(state, "mergedList")) = 2
    /\ Len(selections) >= 2

\* C15: whatever the array, and whatever decisions and undos were made, the
\* renders come to rest, and at rest the result is set or a prompt is on
\* screen; the hook never stays in a state with neither.
C15_RestsWithResultOrPrompt ==
    []<>(AtRest /\ (HasResult(state) \/ HasPrompt(state)))

\* At rest with a prompt after a decision and an undo.
C15_Witness ==
    /\ AtRest /\ HasPrompt(state) /\ ~HasResult(state)
    /\ undos > 0 /\ Len(selections) > 0

\* C16: for a non-empty array, if every prompt is answered and undo is never
\* called, the result is eventually set, and whenever it is set it is a
\* permutation of the array.
C16_AnsweredSortEnds ==
    (array # <<>>) =>
        /\ <>HasResult(state)
        /\ [](HasResult(state) => SameMultiset(Get(state, "result")[1], array))

\* Three items were sorted with three answers.
C16_Witness ==
    /\ HasResult(state) /\ Len(array) = 3 /\ Len(selections) = 3
    /\ SameMultiset(Get(state, "result")[1], array)

\* C13: tearing down rejects the comparison in flight, and once torn down
\* the sort sets the component's state no more: it shows neither a further
\* pair nor the sorted list.
C13_TornDownSortIsSilent ==
    [][/\ (Teardown /\ comparison = "pending") => comparison' = "rejected"
       /\ lifecycle = "tornDown" => shown' = shown
      ]_vars

\* C21: when no prompt is set and exactly one of the considered lists is
\* empty, the render sets no prompt: it appends mergedList followed by the
\* items of the other list, in order, as one list at the end of mergedLists,
\* empties mergedList and makes consideredLists undefined; moreLists and
\* result are unchanged.
C21_Flush ==
    [][LET consideredLists == Get(state, "consideredLists")
           oneEmpty == /\ consideredLists # Undefined
                       /\ (consideredLists[1][1] = <<>>) # (consideredLists[1][2] = <<>>)
       IN  (Render /\ ~HasPrompt(state) /\ oneEmpty) =>
               LET remainingList == IF consideredLists[1][1] # <<>>
                                    THEN consideredLists[1][1]
                                    ELSE consideredLists[1][2]
               IN  /\ Get(state', "prompt") = Undefined
                   /\ Get(state', "mergedLists") =
                          Append(Get(state, "mergedLists"),
                                 Get(state, "mergedList") \o remainingList)
                   /\ Get(state', "mergedList") = <<>>
                   /\ Get(state', "consideredLists") = Undefined
                   /\ Get(state', "moreLists") = Get(state, "moreLists")
                   /\ Get(state', "result") = Get(state, "result")
      ]_vars

\* A flush has put a merged item and the two remaining items of the other
\* list into one list of three.
C21_Witness ==
    /\ Get(state, "consideredLists") = Undefined
    /\ Get(state, "mergedList") = <<>>
    /\ Len(Get(state, "mergedLists")) = 1
    /\ Len(Get(state, "mergedLists")[1]) = 3
    /\ Len(selections) = 2
    /\ selections[2] = 1

\* C23: in every reachable state at most one of the scheduler, the merger
\* and the end-of-pass effect dispatches anything, so the dispatches of one
\* render come from one effect.
C23_OneEffectPerRender ==
    Cardinality({i \in 1..3 :
        <<ConsideredListsEffect(state), MergerEffect(state),
          PassEffect(array, state)>>[i] # <<>>}) <= 1

\* After a decision the end-of-pass effect, and it alone, is about to
\* dispatch.
C23_Witness ==
    /\ ~firstRender
    /\ PassEffect(array, state) # <<>>
    /\ ConsideredListsEffect(state) = <<>>
    /\ MergerEffect(state) = <<>>
    /\ Len(selections) > 0

\* C22: the lists of every snapshot on the stack have the contents they had
\* when the snapshot was pushed, whatever decisions, renders and undos
\* followed.
C22_SnapshotsKeepTheirContents ==
    \A i \in 1..Len(snapshots) : Contents(heap, snapshots[i]) = pushed[i]

\* Two snapshots are on the stack after an undo and further decisions, and
\* the older one holds a considered pair whose first list has since been
\* shifted in the live state.
C22_Witness ==
    /\ Len(snapshots) = 2 /\ undos > 0
    /\ pushed[1].consideredLists # Undefined
    /\ Get(refs, "consideredLists") # Undefined
    /\ Contents(heap, refs).mergedList # <<>>
    /\ Contents(heap, snapshots[2]) = pushed[2]

====
